---- MODULE Spec2Model ----
(***************************************************************************)
(* Model of matrix_utils.py: array_to_np_matrix, transpose_matrix,         *)
(* project_b_colspace, rref and transition_probability.                    *)
(*                                                                         *)
(* Numbers are exact rationals <<n, d>> in lowest terms with d > 0, so     *)
(* numpy's float64 arithmetic is modelled without rounding and sympy's     *)
(* rational arithmetic is modelled exactly.  Arrays are objects with an    *)
(* identity and a storage buffer, so that views (transpose) and pass-      *)
(* through results (asarray of an ndarray) can be told from fresh arrays.  *)
(* Every statement of a function body is one action; pc names the line of  *)
(* the statement that runs next.                                           *)
(***************************************************************************)
EXTENDS Integers, Sequences, FiniteSets, TLC

\* ------------------------------------------------------------ bounds
\* entries of a colspace_a with one or two rows are drawn from 0 .. MaxA
\* (those with three rows have entries 0 and 1)
MaxA == 1
\* entries of b are drawn from 0 .. MaxB (besides the documented vector [1,2,3])
MaxB == 1
\* entries of the rref input are drawn from 0 .. MaxM
MaxM == 1
\* integer entries of transition inputs are drawn from 0 .. MaxT
MaxT == 1
\* periods is drawn from 0 .. MaxPeriods
MaxPeriods == 4

\* ------------------------------------------------------------ rationals
Abs(x) == IF x < 0 THEN -x ELSE x

RECURSIVE GCD(_, _)
GCD(a, b) == IF b = 0 THEN a ELSE GCD(b, a % b)

\* the fraction n/d (d # 0) in lowest terms with a positive denominator
Norm(n, d) ==
    LET g == GCD(Abs(n), Abs(d))
        s == IF d < 0 THEN -1 ELSE 1
    IN  <<(s * n) \div g, (s * d) \div g>>

RInt(n) == <<n, 1>>
RZero == RInt(0)
ROne == RInt(1)

RAdd(x, y) ==
    LET g == GCD(x[2], y[2])
    IN  Norm(x[1] * (y[2] \div g) + y[1] * (x[2] \div g), (x[2] \div g) * y[2])

RNeg(x) == <<-x[1], x[2]>>
RSub(x, y) == RAdd(x, RNeg(y))

RMul(x, y) ==
    LET g1 == GCD(Abs(x[1]), y[2])
        g2 == GCD(Abs(y[1]), x[2])
    IN  IF x[1] = 0 \/ y[1] = 0 THEN RZero
        ELSE <<(x[1] \div g1) * (y[1] \div g2), (x[2] \div g2) * (y[2] \div g1)>>

\* x / y for y # 0
RDiv(x, y) == RMul(x, IF y[1] < 0 THEN <<-y[2], -y[1]>> ELSE <<y[2], y[1]>>)

\* ------------------------------------------------------------ dense matrices
\* a matrix is a sequence of rows, each a sequence of rationals
NRows(M) == Len(M)
NCols(M) == Len(M[1])

RECURSIVE SumSeq(_)
SumSeq(s) == IF s = <<>> THEN RZero ELSE RAdd(s[1], SumSeq(Tail(s)))

\* a matrix given as a function of functions, as a sequence of row sequences
Dense(M) == <<>> \o [i \in DOMAIN M |-> <<>> \o M[i]]

Transpose(M) == Dense([j \in 1..NCols(M) |-> [i \in 1..NRows(M) |-> M[i][j]]])

MatMul(X, Y) ==
    Dense([i \in 1..NRows(X) |->
              [j \in 1..NCols(Y) |->
                  SumSeq([k \in 1..NCols(X) |-> RMul(X[i][k], Y[k][j])])]])

Identity(n) == Dense([i \in 1..n |-> [j \in 1..n |-> IF i = j THEN ROne ELSE RZero]])

\* lines 15-19: the module's 3 x 3 identity constant (no function uses it)
IDENTITY_MATRIX == <<<<1, 0, 0>>, <<0, 1, 0>>, <<0, 0, 1>>>>

IntMatrix(M) == Dense([i \in 1..Len(M) |-> [j \in 1..Len(M[1]) |-> RInt(M[i][j])]])

\* determinant by cofactor expansion along the first row (square M)
RECURSIVE Det(_)
Det(M) ==
    IF NRows(M) = 1 THEN M[1][1]
    ELSE LET n == NRows(M)
             Minor(j) == Dense([i \in 1..(n - 1) |->
                                   [k \in 1..(n - 1) |->
                                       M[i + 1][IF k < j THEN k ELSE k + 1]]])
             Term(j) == RMul(IF j % 2 = 1 THEN M[1][j] ELSE RNeg(M[1][j]), Det(Minor(j)))
         IN  SumSeq([j \in 1..n |-> Term(j)])

\* ------------------------------------------------------------ row reduction
SetMin(S) == CHOOSE x \in S : \A y \in S : x <= y

\* PivotStep without the division by the pivot: the pivot row is left unscaled
MutPivotStepNoScale(M, r, p, c) ==
    LET Swapped(i) == IF i = r THEN M[p] ELSE IF i = p THEN M[r] ELSE M[i]
        E(i, j) == IF i = r THEN Swapped(r)[j]
                   ELSE RSub(Swapped(i)[j], RMul(Swapped(i)[c], Swapped(r)[j]))
    IN  Dense([i \in 1..NRows(M) |-> [j \in 1..NCols(M) |-> E(i, j)]])

\* PivotStep that clears column c only below the pivot row (echelon form, not
\* reduced)
MutPivotStepBelowOnly(M, r, p, c) ==
    LET Swapped(i) == IF i = r THEN M[p] ELSE IF i = p THEN M[r] ELSE M[i]
        pivot == Swapped(r)[c]
        E(i, j) == IF i = r THEN RDiv(Swapped(r)[j], pivot)
                   ELSE IF i < r THEN Swapped(i)[j]
                   ELSE RSub(Swapped(i)[j],
                             RMul(Swapped(i)[c], RDiv(Swapped(r)[j], pivot)))
    IN  Dense([i \in 1..NRows(M) |-> [j \in 1..NCols(M) |-> E(i, j)]])

\* one elimination step on column c with pivot row p moved to row r: the pivot
\* row is scaled to a leading 1 and column c is cleared in every other row
PivotStep(M, r, p, c) ==
    LET Swapped(i) == IF i = r THEN M[p] ELSE IF i = p THEN M[r] ELSE M[i]
        pivot == Swapped(r)[c]
        E(i, j) == IF i = r THEN RDiv(Swapped(r)[j], pivot)
                   ELSE RSub(Swapped(i)[j],
                             RMul(Swapped(i)[c], RDiv(Swapped(r)[j], pivot)))
    IN  Dense([i \in 1..NRows(M) |-> [j \in 1..NCols(M) |-> E(i, j)]])

\* Gauss-Jordan elimination from row r, column c on; pivs are the pivot
\* columns found so far (0-based, as sympy reports them)
RECURSIVE Reduce(_, _, _, _)
Reduce(M, r, c, pivs) ==
    IF r > NRows(M) \/ c > NCols(M) THEN [rows |-> M, pivots |-> pivs]
    ELSE LET cand == {i \in r..NRows(M) : M[i][c][1] # 0}
         IN  IF cand = {} THEN Reduce(M, r, c + 1, pivs)
             ELSE Reduce(PivotStep(M, r, SetMin(cand), c), r + 1, c + 1,
                         Append(pivs, c - 1))

\* sympy.Matrix.rref(): the pair (reduced row echelon form, pivot columns)
SympyRref(M) == Reduce(M, 1, 1, <<>>)

\* ------------------------------------------------------------ numpy values
\* an array value: nd = 1 (rows holds the single vector) or nd = 2
Arr1(v) == [nd |-> 1, rows |-> <<v>>]
Arr2(M) == [nd |-> 2, rows |-> M]
NoVal == [nd |-> 0, rows |-> <<>>]

\* ndarray.transpose(): reverses the axes; a 1-D array is left as it is
NpTranspose(v) == IF v.nd = 1 THEN v ELSE Arr2(Transpose(v.rows))

\* NpMatmul without the shape check: the inner dimension is cut to the shorter
MutNpMatmulNoShapeCheck(x, y) ==
    LET X == x.rows
        Y == IF y.nd = 1 THEN Transpose(y.rows) ELSE y.rows
        inner == IF NCols(X) < NRows(Y) THEN NCols(X) ELSE NRows(Y)
        E(i, j) == SumSeq([k \in 1..inner |-> RMul(X[i][k], Y[k][j])])
        P == Dense([i \in 1..NRows(X) |-> [j \in 1..NCols(Y) |-> E(i, j)]])
    IN  [exc |-> "none",
         val |-> IF x.nd = 1 /\ y.nd = 1 THEN Arr1(<<P[1][1]>>)
                 ELSE IF x.nd = 1 THEN Arr1(P[1])
                 ELSE IF y.nd = 1 THEN Arr1(Transpose(P)[1])
                 ELSE Arr2(P)]

\* np.matmul(x, y) on 1-D / 2-D operands: a 1-D left operand is a row, a 1-D
\* right operand is a column, and the added axis is removed from the result;
\* mismatched inner dimensions raise ValueError
NpMatmul(x, y) ==
    LET X == x.rows
        Y == IF y.nd = 1 THEN Transpose(y.rows) ELSE y.rows
    IN  IF NCols(X) # NRows(Y) THEN [exc |-> "ValueError", val |-> NoVal]
        ELSE LET P == MatMul(X, Y)
             IN  [exc |-> "none",
                  val |-> IF x.nd = 1 /\ y.nd = 1 THEN Arr1(<<P[1][1]>>)
                          ELSE IF x.nd = 1 THEN Arr1(P[1])
                          ELSE IF y.nd = 1 THEN Arr1(Transpose(P)[1])
                          ELSE Arr2(P)]

\* NpInv without the singularity check: whatever the elimination leaves in
\* the right-hand block is returned
MutNpInvNoSingularCheck(a) ==
    LET n == NRows(a.rows)
        aug == LET E(i, j) == IF j <= n THEN a.rows[i][j]
                              ELSE IF j - n = i THEN ROne ELSE RZero
               IN  Dense([i \in 1..n |-> [j \in 1..(2 * n) |-> E(i, j)]])
        red == Reduce(aug, 1, 1, <<>>)
    IN  [exc |-> "none",
         val |-> Arr2(Dense([i \in 1..n |-> [j \in 1..n |-> red.rows[i][n + j]]]))]

\* np.linalg.inv(a) for a 2-D array: LinAlgError when a is not square or is
\* singular, otherwise the inverse (elimination on [a | I])
NpInv(a) ==
    LET n == NRows(a.rows)
        aug == LET E(i, j) == IF j <= n THEN a.rows[i][j]
                              ELSE IF j - n = i THEN ROne ELSE RZero
               IN  Dense([i \in 1..n |-> [j \in 1..(2 * n) |-> E(i, j)]])
        red == Reduce(aug, 1, 1, <<>>)
    IN  IF a.nd # 2 \/ NCols(a.rows) # n THEN [exc |-> "LinAlgError", val |-> NoVal]
        ELSE IF SubSeq(red.pivots, 1, n) # [i \in 1..n |-> i - 1]
             THEN [exc |-> "LinAlgError", val |-> NoVal]
        ELSE [exc |-> "none",
              val |-> Arr2(Dense([i \in 1..n |-> [j \in 1..n |-> red.rows[i][n + j]]]))]

\* PowerBits that never squares z: every set bit contributes a itself
RECURSIVE MutPowerBitsNoSquaring(_, _, _, _)
MutPowerBitsNoSquaring(z, n, acc, started) ==
    IF n = 0 THEN acc
    ELSE LET acc2 == IF n % 2 = 1
                     THEN (IF started THEN MatMul(acc, z) ELSE z)
                     ELSE acc
         IN  MutPowerBitsNoSquaring(z, n \div 2, acc2, started \/ n % 2 = 1)

\* the binary decomposition of np.linalg.matrix_power for n >= 1: z runs over
\* a, a^2, a^4, ... and the factors of the set bits are multiplied up
RECURSIVE PowerBits(_, _, _, _)
PowerBits(z, n, acc, started) ==
    IF n = 0 THEN acc
    ELSE LET acc2 == IF n % 2 = 1
                     THEN (IF started THEN MatMul(acc, z) ELSE z)
                     ELSE acc
         IN  PowerBits(IF n \div 2 = 0 THEN z ELSE MatMul(z, z), n \div 2, acc2,
                       started \/ n % 2 = 1)

\* the element-wise power a ** n in place of the matrix power
MutNpMatrixPowerElementwise(a, n) ==
    LET Pow(x) == LET RECURSIVE P(_)
                      P(k) == IF k = 0 THEN ROne ELSE RMul(x, P(k - 1))
                  IN  P(n)
        E(i, j) == Pow(a.rows[i][j])
    IN  IF a.nd # 2 \/ NRows(a.rows) # NCols(a.rows)
        THEN [exc |-> "LinAlgError", val |-> NoVal]
        ELSE [exc |-> "none",
              val |-> Arr2(Dense([i \in 1..NRows(a.rows) |->
                                     [j \in 1..NCols(a.rows) |-> E(i, j)]]))]

\* np.linalg.matrix_power(a, n), n >= 0: LinAlgError unless a is a square 2-D
\* array; the identity for n = 0; a itself for n = 1
NpMatrixPower(a, n) ==
    IF a.nd # 2 \/ NRows(a.rows) # NCols(a.rows)
    THEN [exc |-> "LinAlgError", val |-> NoVal]
    ELSE IF n = 0 THEN [exc |-> "none", val |-> Arr2(Identity(NRows(a.rows)))]
    ELSE IF n = 1 THEN [exc |-> "none", val |-> a]
    ELSE IF n = 2 THEN [exc |-> "none", val |-> Arr2(MatMul(a.rows, a.rows))]
    ELSE IF n = 3
         THEN [exc |-> "none", val |-> Arr2(MatMul(MatMul(a.rows, a.rows), a.rows))]
    ELSE [exc |-> "none", val |-> Arr2(PowerBits(a.rows, n, a.rows, FALSE))]

\* ------------------------------------------------------------ objects
\* An object has a kind ("list", "ndarray", "sympy", "tuple"), an identity and
\* a storage buffer; tr says that an ndarray reads its buffer with the axes
\* reversed (a transposed view).  The heap holds the buffers and the next
\* free identity.
NoObj == [kind |-> "None", id |-> 0, buf |-> 0, tr |-> FALSE]
EmptyHeap == [store |-> <<>>, nextId |-> 1]

Val(h, o) == IF o.tr THEN NpTranspose(h.store[o.buf]) ELSE h.store[o.buf]

\* a fresh object of the given kind over a fresh buffer holding v
Alloc(h, kind, v) ==
    [h   |-> [store |-> Append(h.store, v), nextId |-> h.nextId + 1],
     o   |-> [kind |-> kind, id |-> h.nextId, buf |-> Len(h.store) + 1, tr |-> FALSE],
     exc |-> "none"]

Raise(h, e) == [h |-> h, o |-> NoObj, exc |-> e]

FromVal(h, kind, r) == IF r.exc = "none" THEN Alloc(h, kind, r.val) ELSE Raise(h, r.exc)

\* np.array in place of np.asarray: the argument is always copied
MutNpAsarrayAlwaysCopy(h, x) == Alloc(h, "ndarray", Val(h, x))

\* np.asarray(x): an ndarray is passed through as the same object, anything
\* else is copied into a new array
np_asarray(h, x) ==
    IF x.kind = "ndarray" THEN [h |-> h, o |-> x, exc |-> "none"]
    ELSE Alloc(h, "ndarray", Val(h, x))

\* x.transpose(): a new ndarray object that is a view on x's buffer
ndarray_transpose(h, x) ==
    [h   |-> [h EXCEPT !.nextId = @ + 1],
     o   |-> [kind |-> "ndarray", id |-> h.nextId, buf |-> x.buf, tr |-> ~x.tr],
     exc |-> "none"]

np_matmul(h, x, y) == FromVal(h, "ndarray", NpMatmul(Val(h, x), Val(h, y)))

np_linalg_inv(h, a) == FromVal(h, "ndarray", NpInv(Val(h, a)))

\* matrix_power returns its argument itself for n = 1, a new array otherwise
np_linalg_matrix_power(h, a, n) ==
    LET r == NpMatrixPower(Val(h, a), n)
    IN  IF r.exc = "none" /\ n = 1 THEN [h |-> h, o |-> a, exc |-> "none"]
        ELSE FromVal(h, "ndarray", r)

\* sympy.Matrix(x): a new matrix holding a copy of the entries
sympy_Matrix(h, x) == Alloc(h, "sympy", Val(h, x))

\* m.rref(): a new tuple (reduced matrix, pivot columns)
sympy_rref(h, m) ==
    LET r == SympyRref(Val(h, m).rows)
    IN  Alloc(h, "tuple", [nd |-> 2, rows |-> r.rows, pivots |-> r.pivots])

\* ------------------------------------------------------------ inputs
\* the r x c grids of integers 0 .. hi
IntGrids(r, c, hi) == [1..r -> [1..c -> 0..hi]]
IntMatrices(r, c, hi) == {IntMatrix(M) : M \in IntGrids(r, c, hi)}

\* colspace_a: an integer matrix of one of these shapes
AShapes == {<<1, 1>>, <<1, 2>>, <<2, 1>>, <<2, 2>>, <<3, 1>>, <<3, 2>>}
AGrids(s) == IntGrids(s[1], s[2], IF s[1] = 3 THEN 1 ELSE MaxA)

\* b: an integer vector of length 1 to 3, given as a 1-D array, as a 2-D row
\* or as a 2-D column
BVectors(k) == IntGrids(1, k, MaxB) \cup (IF k = 3 THEN {<<<<1, 2, 3>>>>} ELSE {})
BForms == {"1-D", "row", "column"}
BValue(G, form) ==
    IF form = "1-D" THEN Arr1(IntMatrix(G)[1])
    ELSE IF form = "row" THEN Arr2(IntMatrix(G))
    ELSE Arr2(Transpose(IntMatrix(G)))

\* the matrix given to rref
RrefShapes == {<<1, 1>>, <<2, 2>>, <<2, 3>>, <<3, 3>>}

\* the argument of array_to_np_matrix and transpose_matrix
UtilInputs == {Arr2(M) : M \in IntMatrices(2, 2, MaxM) \cup IntMatrices(1, 2, MaxM)}
                 \cup {Arr1(M[1]) : M \in IntMatrices(1, 2, MaxM)}

\* probabilities used for stochastic inputs
Probs == {<<0, 1>>, <<1, 10>>, <<1, 5>>, <<1, 2>>, <<4, 5>>, <<9, 10>>, <<1, 1>>}
StochRow(q) == <<q, RSub(ROne, q)>>
\* transition_matrix: a 2 x 2 stochastic matrix or an integer matrix
TInputs == {Arr2(<<StochRow(q1), StochRow(q2)>>) : q1 \in Probs, q2 \in Probs}
              \cup {Arr2(M) : M \in IntMatrices(2, 2, MaxT) \cup IntMatrices(1, 1, MaxT)
                                      \cup IntMatrices(1, 2, MaxT)}
\* initial_prob: a probability vector or an integer vector, 1-D
PInputs == {Arr1(StochRow(q)) : q \in Probs}
              \cup {Arr1(M[1]) : M \in IntMatrices(1, 2, MaxT) \cup IntMatrices(1, 1, MaxT)}

\* ------------------------------------------------------------ state
VARIABLES
    pc,              \* "idle", the line of the next statement, "done" or "raised"
    fn,              \* the function being called
    depth,           \* number of calls made so far
    args,            \* the caller's argument objects, by parameter name
    argvals,         \* the contents of those objects when the call began
    need_transpose,  \* project_b_colspace's flag
    periods,         \* transition_probability's period count
    locals,          \* the function's local names and the objects bound to them
    heap,            \* buffers and identities
    stdout,          \* the values written to standard output, in order
    mark,            \* length of stdout when the current call began
    result,          \* the object returned, NoObj until the call returns
    exc              \* the exception that ended the call, if any

vars == <<pc, fn, depth, args, argvals, need_transpose, periods, locals, heap, stdout,
          mark, result, exc>>

\* what a call fixes on entry
callVars == <<fn, depth, args, argvals, need_transpose, periods, mark>>

NoExc == [type |-> "none", line |-> 0]

Init ==
    /\ pc = "idle"
    /\ fn = "none"
    /\ depth = 0
    /\ args = <<>>
    /\ argvals = <<>>
    /\ need_transpose = FALSE
    /\ periods = 0
    /\ locals = <<>>
    /\ heap = EmptyHeap
    /\ stdout = <<>>
    /\ mark = 0
    /\ result = NoObj
    /\ exc = NoExc

\* the values the current call has written so far
Written == SubSeq(stdout, mark + 1, Len(stdout))

\* a statement that binds name to the outcome r of a library call and goes on
\* to line next, or ends the call with r's exception raised at line here
Bind(name, r, here, next) ==
    /\ heap' = r.h
    /\ IF r.exc = "none"
       THEN /\ locals' = (name :> r.o) @@ locals
            /\ pc' = next
            /\ exc' = exc
       ELSE /\ locals' = locals
            /\ pc' = "raised"
            /\ exc' = [type |-> r.exc, line |-> here]
    /\ UNCHANGED <<callVars, stdout, result>>

\* a print statement that writes nothing
MutPrintStmtSilent(x, next) ==
    /\ pc' = next
    /\ UNCHANGED <<callVars, locals, heap, stdout, result, exc>>

\* print(x): the value of x is appended to standard output
PrintStmt(x, next) ==
    /\ stdout' = Append(stdout, Val(heap, x))
    /\ pc' = next
    /\ UNCHANGED <<callVars, locals, heap, result, exc>>

\* return x
ReturnStmt(x) ==
    /\ result' = x
    /\ pc' = "done"
    /\ UNCHANGED <<callVars, locals, heap, stdout, exc>>

\* the caller builds the argument objects and enters f at line first
Enter(f, h, a, nt, n, first) ==
    /\ fn' = f
    /\ depth' = depth + 1
    /\ args' = a
    /\ argvals' = [x \in DOMAIN a |-> Val(h, a[x])]
    /\ locals' = a
    /\ need_transpose' = nt
    /\ periods' = n
    /\ heap' = h
    /\ mark' = Len(stdout)
    /\ result' = NoObj
    /\ exc' = NoExc
    /\ pc' = first
    /\ UNCHANGED stdout

\* the caller's objects for a first call: one fresh object per argument
CallerObj(h, kind, v) == Alloc(h, kind, v)

\* ------------------------------------------------------------ array_to_np_matrix
Call_array_to_np_matrix ==
    /\ pc = "idle"
    /\ \E v \in UtilInputs, kind \in {"list", "ndarray"} :
          LET a == CallerObj(heap, kind, v)
          IN  Enter("array_to_np_matrix", a.h, "array" :> a.o, FALSE, 0, "L32")

\* line 32: return np.asarray(array)
array_to_np_matrix_L32 ==
    /\ pc = "L32"
    /\ LET r == np_asarray(heap, locals["array"])
       IN  /\ heap' = r.h
           /\ result' = r.o
           /\ pc' = "done"
    /\ UNCHANGED <<callVars, locals, stdout, exc>>

\* ------------------------------------------------------------ transpose_matrix
Call_transpose_matrix ==
    /\ pc = "idle"
    /\ \E v \in UtilInputs, kind \in {"list", "ndarray"} :
          LET a == CallerObj(heap, kind, v)
          IN  Enter("transpose_matrix", a.h, "matrix" :> a.o, FALSE, 0, "L45")

\* line 45: return np.asarray(matrix).transpose()
transpose_matrix_L45 ==
    /\ pc = "L45"
    /\ LET a == np_asarray(heap, locals["matrix"])
           r == ndarray_transpose(a.h, a.o)
       IN  /\ heap' = r.h
           /\ result' = r.o
           /\ pc' = "done"
    /\ UNCHANGED <<callVars, locals, stdout, exc>>

\* ------------------------------------------------------------ project_b_colspace
Call_project_b_colspace ==
    /\ pc = "idle"
    /\ \E k \in 1..3, s \in AShapes, nt \in BOOLEAN :
       \E G \in BVectors(k), form \in BForms, M \in AGrids(s) :
          LET b == CallerObj(heap, "ndarray", BValue(G, form))
              a == CallerObj(b.h, "ndarray", Arr2(IntMatrix(M)))
          IN  Enter("project_b_colspace", a.h, ("b" :> b.o) @@ ("colspace_a" :> a.o),
                    nt, 0, "L60")

\* the caller projects the projection it just got onto the same column space:
\* project_b_colspace(project_b_colspace(b, A, ...), A)
Call_project_b_colspace_again ==
    /\ pc = "done"
    /\ fn = "project_b_colspace"
    /\ depth = 1
    /\ Enter("project_b_colspace", heap,
             ("b" :> result) @@ ("colspace_a" :> args["colspace_a"]), FALSE, 0, "L60")

\* lines 60-61: if need_transpose: b = b.transpose()
project_b_colspace_L60 ==
    /\ pc = "L60"
    /\ IF need_transpose
       THEN Bind("b", ndarray_transpose(heap, locals["b"]), 61, "L63")
       ELSE /\ pc' = "L63"
            /\ UNCHANGED <<callVars, locals, heap, stdout, result, exc>>

\* line 63: a_trans = colspace_a.transpose()
project_b_colspace_L63 ==
    /\ pc = "L63"
    /\ Bind("a_trans", ndarray_transpose(heap, locals["colspace_a"]), 63, "L64")

\* line 64: ata = np.matmul(a_trans, colspace_a)
project_b_colspace_L64 ==
    /\ pc = "L64"
    /\ Bind("ata", np_matmul(heap, locals["a_trans"], locals["colspace_a"]), 64, "L65")

\* line 65: a_trans_a_inv = np.linalg.inv(ata)
project_b_colspace_L65 ==
    /\ pc = "L65"
    /\ Bind("a_trans_a_inv", np_linalg_inv(heap, locals["ata"]), 65, "L66")

\* line 66 without the inverse: A A^T
MutProjectionMatrixNoInverse(h, colspace_a, a_trans_a_inv, a_trans) ==
    np_matmul(h, colspace_a, a_trans)

\* line 66 without the outer factor: (A^T A)^-1 A^T
MutProjectionMatrixNoOuter(h, colspace_a, a_trans_a_inv, a_trans) ==
    np_matmul(h, a_trans_a_inv, a_trans)

\* the projection matrix A (A^T A)^-1 A^T of line 66
ProjectionMatrix(h, colspace_a, a_trans_a_inv, a_trans) ==
    LET inner == np_matmul(h, a_trans_a_inv, a_trans)
    IN  IF inner.exc # "none" THEN inner ELSE np_matmul(inner.h, colspace_a, inner.o)

\* line 66: projection_matrix = np.matmul(colspace_a, np.matmul(a_trans_a_inv, a_trans))
project_b_colspace_L66 ==
    /\ pc = "L66"
    /\ Bind("projection_matrix",
            ProjectionMatrix(heap, locals["colspace_a"], locals["a_trans_a_inv"],
                             locals["a_trans"]),
            66, "L67")

\* line 67: projection = np.matmul(projection_matrix, b)
project_b_colspace_L67 ==
    /\ pc = "L67"
    /\ Bind("projection", np_matmul(heap, locals["projection_matrix"], locals["b"]),
            67, "L69")

\* line 69: print(projection)
project_b_colspace_L69 ==
    /\ pc = "L69"
    /\ PrintStmt(locals["projection"], "L70")

\* line 70: return projection
project_b_colspace_L70 ==
    /\ pc = "L70"
    /\ ReturnStmt(locals["projection"])

\* ------------------------------------------------------------ rref
Call_rref ==
    /\ pc = "idle"
    /\ \E s \in RrefShapes, kind \in {"list", "ndarray"} :
       \E M \in IntGrids(s[1], s[2], MaxM) :
          LET m == CallerObj(heap, kind, Arr2(IntMatrix(M)))
          IN  Enter("rref", m.h, "matrix" :> m.o, FALSE, 0, "L83")

\* line 83: sympy_matrix = sympy.Matrix(matrix)
rref_L83 ==
    /\ pc = "L83"
    /\ Bind("sympy_matrix", sympy_Matrix(heap, locals["matrix"]), 83, "L84")

\* line 84: rref_matrix = sympy_matrix.rref()
rref_L84 ==
    /\ pc = "L84"
    /\ Bind("rref_matrix", sympy_rref(heap, locals["sympy_matrix"]), 84, "L86")

\* line 86: print(rref_matrix)
rref_L86 ==
    /\ pc = "L86"
    /\ PrintStmt(locals["rref_matrix"], "L87")

\* line 87: return rref_matrix
rref_L87 ==
    /\ pc = "L87"
    /\ ReturnStmt(locals["rref_matrix"])

\* ------------------------------------------------------------ transition_probability
Call_transition_probability ==
    /\ pc = "idle"
    /\ \E pv \in PInputs, tv \in TInputs, n \in 0..MaxPeriods,
          kind \in {"list", "ndarray"} :
          LET p == CallerObj(heap, kind, pv)
              t == CallerObj(p.h, kind, tv)
          IN  Enter("transition_probability", t.h,
                    ("initial_prob" :> p.o) @@ ("transition_matrix" :> t.o),
                    FALSE, n, "L102")

\* line 102: transition_matrix = np.asarray(transition_matrix)
transition_probability_L102 ==
    /\ pc = "L102"
    /\ Bind("transition_matrix", np_asarray(heap, locals["transition_matrix"]),
            102, "L103")

\* line 103: initial_prob = np.asarray(initial_prob)
transition_probability_L103 ==
    /\ pc = "L103"
    /\ Bind("initial_prob", np_asarray(heap, locals["initial_prob"]), 103, "L105")

\* line 105: transition_power = np.linalg.matrix_power(transition_matrix, periods)
transition_probability_L105 ==
    /\ pc = "L105"
    /\ Bind("transition_power",
            np_linalg_matrix_power(heap, locals["transition_matrix"], periods),
            105, "L106")

\* line 106: print(transition_power)
transition_probability_L106 ==
    /\ pc = "L106"
    /\ PrintStmt(locals["transition_power"], "L108")

\* line 108: final_prob = np.matmul(initial_prob, transition_power)
transition_probability_L108 ==
    /\ pc = "L108"
    /\ Bind("final_prob",
            np_matmul(heap, locals["initial_prob"], locals["transition_power"]),
            108, "L109")

\* line 109: return final_prob
transition_probability_L109 ==
    /\ pc = "L109"
    /\ ReturnStmt(locals["final_prob"])

\* ------------------------------------------------------------ specifications
NextProject ==
    \/ Call_project_b_colspace
    \/ Call_project_b_colspace_again
    \/ project_b_colspace_L60
    \/ project_b_colspace_L63
    \/ project_b_colspace_L64
    \/ project_b_colspace_L65
    \/ project_b_colspace_L66
    \/ project_b_colspace_L67
    \/ project_b_colspace_L69
    \/ project_b_colspace_L70

NextRref ==
    \/ Call_rref
    \/ rref_L83
    \/ rref_L84
    \/ rref_L86
    \/ rref_L87

NextTransition ==
    \/ Call_transition_probability
    \/ transition_probability_L102
    \/ transition_probability_L103
    \/ transition_probability_L105
    \/ transition_probability_L106
    \/ transition_probability_L108
    \/ transition_probability_L109

NextUtil ==
    \/ Call_transpose_matrix
    \/ transpose_matrix_L45
    \/ Call_array_to_np_matrix
    \/ array_to_np_matrix_L32

Next == NextUtil \/ NextProject \/ NextRref \/ NextTransition

\* any of the five functions is called
Spec == Init /\ [][Next]_vars
\* calls of project_b_colspace only
SpecProject == Init /\ [][NextProject]_vars
\* calls of rref only
SpecRref == Init /\ [][NextRref]_vars
\* calls of transition_probability only
SpecTransition == Init /\ [][NextTransition]_vars

\* ------------------------------------------------------------ reference notions
\* M without row a and column b
MinorAt(M, a, b) ==
    LET E(i, j) == M[IF i < a THEN i ELSE i + 1][IF j < b THEN j ELSE j + 1]
    IN  Dense([i \in 1..(NRows(M) - 1) |-> [j \in 1..(NCols(M) - 1) |-> E(i, j)]])

\* the inverse of a square matrix with Det # 0 as adjugate / determinant
CofactorInverse(G) ==
    LET n == NRows(G)
        d == Det(G)
        Cof(i, j) == IF n = 1 THEN ROne
                     ELSE IF (i + j) % 2 = 0 THEN Det(MinorAt(G, i, j))
                     ELSE RNeg(Det(MinorAt(G, i, j)))
        E(i, j) == RDiv(Cof(j, i), d)
    IN  Dense([i \in 1..n |-> [j \in 1..n |-> E(i, j)]])

Gram(A) == MatMul(Transpose(A), A)
FullColumnRank(A) == Det(Gram(A)) # RZero

\* an array value read as a matrix whose columns are the vectors it holds
AsColumns(v) == IF v.nd = 1 THEN Transpose(v.rows) ELSE v.rows
\* the matrix P back in the form (1-D or 2-D) of the array value v
InFormOf(v, P) == IF v.nd = 1 THEN Arr1(Transpose(P)[1]) ELSE Arr2(P)

InProject == fn = "project_b_colspace"
ArgA == Val(heap, args["colspace_a"])
ArgB == Val(heap, args["b"])
\* b after the optional transposition (a 1-D array is its own transpose)
BPrime == IF need_transpose /\ ArgB.nd = 2 THEN Arr2(Transpose(ArgB.rows)) ELSE ArgB
RowsMatch == NRows(AsColumns(BPrime)) = NRows(ArgA.rows)

\* A (A^T A)^-1 A^T b', associated from the right and with the inverse taken
\* by cofactors
RefProjection ==
    LET A == ArgA.rows
    IN  InFormOf(BPrime,
                 MatMul(A, MatMul(CofactorInverse(Gram(A)),
                                  MatMul(Transpose(A), AsColumns(BPrime)))))

ExampleA == Arr2(IntMatrix(<<<<1, 0>>, <<0, 1>>, <<0, 0>>>>))
ExampleB == Arr1(IntMatrix(<<<<1, 2, 3>>>>)[1])
ExampleProjection == Arr1(IntMatrix(<<<<1, 2, 0>>>>)[1])

\* C1: whenever colspace_a has linearly independent columns and b (after the
\* optional transposition) has as many rows as colspace_a, the call does not
\* raise and what it returns is A (A^T A)^-1 A^T b'; for A = [[1,0],[0,1],[0,0]]
\* and b = [1,2,3] that is [1,2,0].
C1_ProjectionFormula ==
    (InProject /\ pc \in {"done", "raised"} /\ RowsMatch /\ FullColumnRank(ArgA.rows)) =>
        /\ pc = "done"
        /\ Val(heap, result) = RefProjection
        /\ (ArgA = ExampleA /\ ArgB = ExampleB) => Val(heap, result) = ExampleProjection

C1_Witness ==
    /\ InProject /\ pc = "done" /\ need_transpose
    /\ ArgA = ExampleA /\ ArgB = ExampleB
    /\ Val(heap, result) = ExampleProjection

\* C2: whenever colspace_a has full column rank and b is compatible, the
\* residual b' - projection is orthogonal to every column of colspace_a:
\* A^T (b' - projection) is zero in every entry.
C2_ResidualOrthogonal ==
    (InProject /\ pc = "done" /\ RowsMatch /\ FullColumnRank(ArgA.rows)) =>
        LET B == AsColumns(BPrime)
            R == AsColumns(Val(heap, result))
            Diff(i, j) == RSub(B[i][j], R[i][j])
            residual == Dense([i \in 1..NRows(B) |-> [j \in 1..NCols(B) |-> Diff(i, j)]])
            dots == MatMul(Transpose(ArgA.rows), residual)
        IN  \A i \in 1..NRows(dots) : \A j \in 1..NCols(dots) : dots[i][j] = RZero

\* a returned projection that differs from b', so the residual is not zero
C2_Witness ==
    /\ InProject /\ pc = "done" /\ depth = 1
    /\ NRows(ArgA.rows) = 3 /\ NCols(ArgA.rows) = 2
    /\ Val(heap, result) # BPrime
    /\ \E i \in 1..3 : AsColumns(Val(heap, result))[i][1][2] # 1

\* C3: projecting a projection again onto the same column space returns it
\* unchanged: project_b_colspace(project_b_colspace(b, A), A) equals
\* project_b_colspace(b, A).
C3_Idempotent ==
    (InProject /\ depth = 2 /\ pc \in {"done", "raised"}) =>
        /\ pc = "done"
        /\ Val(heap, result) = ArgB

\* the second call returned, for a projection that is not on integer points
C3_Witness ==
    /\ InProject /\ depth = 2 /\ pc = "done"
    /\ \E i \in 1..NRows(AsColumns(ArgB)) : AsColumns(ArgB)[i][1][2] # 1

C5_Original ==
    (InProject /\ ~RowsMatch /\ pc \in {"done", "raised"}) =>
        (pc = "raised" /\ exc.type = "ValueError")

\* C5 as amended: with mismatched row counts the call never returns; it ends
\* with ValueError raised by the multiplication of line 67 when A^T A is
\* invertible, and with the LinAlgError of line 65, which runs first, when
\* A^T A is singular.
C5_ShapeMismatch ==
    (InProject /\ pc \in {"L69", "L70", "done", "raised"} /\ ~RowsMatch) =>
        /\ pc = "raised"
        /\ result = NoObj
        /\ Written = <<>>
        /\ exc = IF FullColumnRank(ArgA.rows)
                 THEN [type |-> "ValueError", line |-> 67]
                 ELSE [type |-> "LinAlgError", line |-> 65]

\* a mismatched b reached line 67 and the multiplication raised
C5_Witness ==
    /\ InProject /\ ~RowsMatch /\ pc = "raised"
    /\ exc = [type |-> "ValueError", line |-> 67]
    /\ need_transpose /\ ArgB.nd = 2

\* ------------------------------------------------------------ transition_probability
InTransition == fn = "transition_probability"
ArgT == Val(heap, args["transition_matrix"])
ArgP == Val(heap, args["initial_prob"])

SumsToOne(row) == SumSeq(row) = ROne
RowStochastic(t) ==
    /\ t.nd = 2
    /\ NRows(t.rows) = NCols(t.rows)
    /\ \A i \in 1..NRows(t.rows) : SumsToOne(t.rows[i])

\* the row vector v multiplied on the right by T, n times over
RECURSIVE StepTimes(_, _, _)
StepTimes(v, T, n) == IF n = 0 THEN v ELSE MatMul(StepTimes(v, T, n - 1), T)

\* T multiplied by itself, n factors, from the identity
RECURSIVE NaivePower(_, _)
NaivePower(T, n) == IF n = 0 THEN Identity(NRows(T)) ELSE MatMul(NaivePower(T, n - 1), T)

ExampleP == Arr1(IntMatrix(<<<<1, 0>>>>)[1])
ExampleT == Arr2(<<<< <<9, 10>>, <<1, 10>> >>, << <<1, 5>>, <<4, 5>> >>>>)
ExampleFinal == Arr1(<< <<9, 10>>, <<1, 10>> >>)

\* C6: when the transition matrix is square with every row summing to 1 and
\* the initial vector sums to 1, the vector returned sums to 1, for every
\* period count.
C6_SumsToOne ==
    (InTransition /\ pc = "done" /\ RowStochastic(ArgT) /\ SumsToOne(ArgP.rows[1])) =>
        /\ Val(heap, result).nd = 1
        /\ SumsToOne(Val(heap, result).rows[1])

\* a stochastic matrix that is not a permutation, raised to the largest power
C6_Witness ==
    /\ InTransition /\ pc = "done" /\ periods = MaxPeriods
    /\ RowStochastic(ArgT) /\ SumsToOne(ArgP.rows[1])
    /\ ArgT.rows[1][1] = <<9, 10>> /\ ArgT.rows[2][1] = <<1, 5>>
    /\ ArgP.rows[1][1] = <<1, 2>>

\* C7: what transition_probability(p, T, n) returns is p T^n: p itself for
\* n = 0, and the result for n - 1 times T for n > 0; for p = [1,0],
\* T = [[0.9,0.1],[0.2,0.8]], n = 1 it is [0.9, 0.1].
C7_VectorTimesPower ==
    (InTransition /\ pc = "done") =>
        /\ Val(heap, result) = Arr1(StepTimes(ArgP.rows, ArgT.rows, periods)[1])
        /\ periods = 0 => Val(heap, result) = ArgP
        /\ (ArgP = ExampleP /\ ArgT = ExampleT /\ periods = 1)
              => Val(heap, result) = ExampleFinal

C7_Witness ==
    /\ InTransition /\ pc = "done" /\ periods = 1
    /\ ArgP = ExampleP /\ ArgT = ExampleT
    /\ Val(heap, result) = ExampleFinal

\* ------------------------------------------------------------ rref
InRref == fn = "rref"
ArgM == Val(heap, args["matrix"])

\* C8: for an invertible square matrix the first component of what rref
\* returns is the identity matrix of the same size.
C8_InvertibleGivesIdentity ==
    (InRref /\ pc = "done" /\ NRows(ArgM.rows) = NCols(ArgM.rows)
        /\ Det(ArgM.rows) # RZero) =>
        Val(heap, result).rows = Identity(NRows(ArgM.rows))

\* an invertible 3 x 3 input that needs a row swap and is not the identity
C8_Witness ==
    /\ InRref /\ pc = "done" /\ NRows(ArgM.rows) = 3 /\ NCols(ArgM.rows) = 3
    /\ Det(ArgM.rows) # RZero
    /\ ArgM.rows[1][1] = RZero
    /\ Val(heap, result).rows = IntMatrix(IDENTITY_MATRIX)

\* ------------------------------------------------------------ output and aliasing
Printing == {"project_b_colspace", "rref", "transition_probability"}

\* C9 as stated: each of the three printing functions has, when it returns,
\* written exactly the value it returns, once.
C9_Original ==
    (fn \in Printing /\ pc = "done") => Written = <<Val(heap, result)>>

\* C9 as amended: project_b_colspace and rref write nothing until their print
\* statement and from there on have written exactly once, the value they
\* return; transition_probability has, from line 108 on, written exactly
\* once, the matrix power T^n, which is not the vector it returns.
C9_WritesBeforeReturn ==
    /\ (fn = "project_b_colspace" /\ pc \in {"L60", "L63", "L64", "L65", "L66", "L67", "L69"})
          => Written = <<>>
    /\ (fn = "project_b_colspace" /\ pc = "L70")
          => Written = <<Val(heap, locals["projection"])>>
    /\ (fn = "project_b_colspace" /\ pc = "done") => Written = <<Val(heap, result)>>
    /\ (fn = "rref" /\ pc \in {"L83", "L84", "L86"}) => Written = <<>>
    /\ (fn = "rref" /\ pc = "L87") => Written = <<Val(heap, locals["rref_matrix"])>>
    /\ (fn = "rref" /\ pc = "done") => Written = <<Val(heap, result)>>
    /\ (fn = "transition_probability" /\ pc \in {"L102", "L103", "L105", "L106"})
          => Written = <<>>
    /\ (fn = "transition_probability" /\ pc \in {"L108", "L109", "done"})
          => Written = <<Arr2(NaivePower(ArgT.rows, periods))>>

\* transition_probability returned a vector other than the matrix it wrote
C9_Witness ==
    /\ fn = "transition_probability" /\ pc = "done" /\ periods = 2
    /\ Written # <<Val(heap, result)>>
    /\ Len(Written) = 1

\* a result that shares neither identity nor storage with any argument
Fresh(o) == \A x \in DOMAIN args : o.id # args[x].id /\ o.buf # args[x].buf
Unmutated == \A x \in DOMAIN args : Val(heap, args[x]) = argvals[x]

\* C10 as stated: no argument's contents change, and what any of the five
\* functions returns is a new array, neither an argument nor a view of one.
C10_Original ==
    /\ Unmutated
    /\ pc = "done" => Fresh(result)

\* C10 as amended: no argument's contents change; project_b_colspace, rref and
\* transition_probability return a new object with storage of its own, and so
\* do array_to_np_matrix and transpose_matrix for a list; for an ndarray,
\* array_to_np_matrix returns the argument itself and transpose_matrix a new
\* object that is a view of the argument's storage.
C10_NoMutationAliasing ==
    /\ Unmutated
    /\ (pc = "done" /\ fn \in Printing) => Fresh(result)
    /\ (pc = "done" /\ fn = "array_to_np_matrix") =>
          IF args["array"].kind = "ndarray" THEN result = args["array"] ELSE Fresh(result)
    /\ (pc = "done" /\ fn = "transpose_matrix") =>
          IF args["matrix"].kind = "ndarray"
          THEN /\ result.id # args["matrix"].id
               /\ result.buf = args["matrix"].buf
               /\ Val(heap, result) = NpTranspose(argvals["matrix"])
          ELSE Fresh(result)

\* transpose_matrix returned a view of the caller's 2 x 2 ndarray
C10_Witness ==
    /\ fn = "transpose_matrix" /\ pc = "done"
    /\ args["matrix"].kind = "ndarray"
    /\ result.buf = args["matrix"].buf
    /\ Val(heap, result) # argvals["matrix"]
====
